---- MODULE Spec2Model ----
(***************************************************************************)
(* InvestCalc: the investment calculator of App (calculateInvestment, the  *)
(* four clamped input fields and the effect that recomputes the result).   *)
(*                                                                         *)
(* The source computes in JavaScript numbers (IEEE-754 binary floating     *)
(* point, round to nearest, ties to even, with NaN and the infinities).    *)
(* The model keeps that arithmetic: a finite number is m * 2^e with a      *)
(* significand of Precision bits, every operation rounds its exact result  *)
(* to nearest-even, 0/0 is NaN and x/0 is an infinity.  The significand    *)
(* is Precision bits wide instead of 53 so that the products fit the       *)
(* integers of the model checker; every literal of the source is exactly   *)
(* representable at this width.  The exponent range is not bounded (no     *)
(* value of the program comes near 2^1024) and -0 is not distinguished     *)
(* from 0.                                                                 *)
(***************************************************************************)
EXTENDS Integers, Sequences, FiniteSets, TLC

\* Width of the significand of a number, in bits.
Precision == 20

Pow2(n) == 2 ^ n

Abs(i) == IF i < 0 THEN -i ELSE i

Sgn(i) == IF i < 0 THEN -1 ELSE IF i > 0 THEN 1 ELSE 0

\* The number of bits of m, 0 <= m < 2^31: a binary search on the powers of
\* two.
BitLen(m) ==
    IF m >= 32768
    THEN IF m >= 8388608
      THEN IF m >= 134217728
        THEN IF m >= 536870912
          THEN IF m >= 1073741824
            THEN 31
            ELSE 30
          ELSE IF m >= 268435456
            THEN 29
            ELSE 28
        ELSE IF m >= 33554432
          THEN IF m >= 67108864
            THEN 27
            ELSE 26
          ELSE IF m >= 16777216
            THEN 25
            ELSE 24
      ELSE IF m >= 524288
        THEN IF m >= 2097152
          THEN IF m >= 4194304
            THEN 23
            ELSE 22
          ELSE IF m >= 1048576
            THEN 21
            ELSE 20
        ELSE IF m >= 131072
          THEN IF m >= 262144
            THEN 19
            ELSE 18
          ELSE IF m >= 65536
            THEN 17
            ELSE 16
    ELSE IF m >= 128
      THEN IF m >= 2048
        THEN IF m >= 8192
          THEN IF m >= 16384
            THEN 15
            ELSE 14
          ELSE IF m >= 4096
            THEN 13
            ELSE 12
        ELSE IF m >= 512
          THEN IF m >= 1024
            THEN 11
            ELSE 10
          ELSE IF m >= 256
            THEN 9
            ELSE 8
      ELSE IF m >= 8
        THEN IF m >= 32
          THEN IF m >= 64
            THEN 7
            ELSE 6
          ELSE IF m >= 16
            THEN 5
            ELSE 4
        ELSE IF m >= 2
          THEN IF m >= 4
            THEN 3
            ELSE 2
          ELSE IF m >= 1
            THEN 1
            ELSE 0

\* The values of the type number.
NaN == [k |-> "nan"]

Inf(s) == [k |-> "inf", s |-> s]

Fin(m, e) == [k |-> "fin", m |-> m, e |-> e]

Zero == Fin(0, 0)

IsNaN(a) == a.k = "nan"

IsInf(a) == a.k = "inf"

IsFin(a) == a.k = "fin"

IsZero(a) == a.k = "fin" /\ a.m = 0

SignOf(a) == IF a.k = "inf" THEN a.s ELSE IF a.k = "fin" THEN Sgn(a.m) ELSE 0

\* Round to nearest, ties to even: the number nearest to s * (m + f) * 2^e,
\* where m >= 0 and 0 <= f < 1, f > 0 exactly when sticky.
Round(s, m, e, sticky) ==
    LET n == BitLen(m) IN
    IF m = 0 THEN Zero
    ELSE IF n <= Precision
    THEN Fin(s * m * Pow2(Precision - n), e - (Precision - n))
    ELSE LET d    == n - Precision
             q    == m \div Pow2(d)
             r    == m % Pow2(d)
             half == Pow2(d - 1)
             up   == r > half \/ (r = half /\ (sticky \/ q % 2 = 1))
             q1   == IF up THEN q + 1 ELSE q
         IN  IF q1 = Pow2(Precision)
             THEN Fin(s * Pow2(Precision - 1), e + d + 1)
             ELSE Fin(s * q1, e + d)

\* An integer literal or an integer-valued conversion.
FromInt(i) == Round(Sgn(i), Abs(i), 0, FALSE)

One == FromInt(1)

Neg(a) ==
    IF a.k = "fin" THEN Fin(-a.m, a.e)
    ELSE IF a.k = "inf" THEN Inf(-a.s)
    ELSE NaN

\* a * b on finite operands: the exact product, rounded once.
FinMul(a, b) ==
    IF a.m = 0 \/ b.m = 0 THEN Zero
    ELSE LET ma == Abs(a.m)
             mb == Abs(b.m)
             h  == Precision \div 2
             bh == mb \div Pow2(h)
             bl == mb % Pow2(h)
             X  == ma * bh
             Y  == ma * bl
             Z  == X + (Y \div Pow2(h))
             yl == Y % Pow2(h)
         IN  Round(Sgn(a.m) * Sgn(b.m), Z, a.e + b.e + h, yl # 0)

\* a / b on finite nonzero operands: the exact quotient, rounded once.  The
\* quotient floor(ma * 2^(Precision + 1) / mb) is formed by long division in
\* three steps, of h, h and Precision + 1 - 2h bits.
FinDiv(a, b) ==
    LET ma == Abs(a.m)
        mb == Abs(b.m)
        h  == Precision \div 2
        l  == Precision + 1 - 2 * h
        q0 == ma \div mb
        r0 == ma % mb
        q1 == (r0 * Pow2(h)) \div mb
        r1 == (r0 * Pow2(h)) % mb
        q2 == (r1 * Pow2(h)) \div mb
        r2 == (r1 * Pow2(h)) % mb
        q3 == (r2 * Pow2(l)) \div mb
        r3 == (r2 * Pow2(l)) % mb
        q  == ((q0 * Pow2(h) + q1) * Pow2(h) + q2) * Pow2(l) + q3
    IN  Round(Sgn(a.m) * Sgn(b.m), q, a.e - b.e - (Precision + 1), r3 # 0)

\* a + b on finite operands: the exact sum, rounded once.
FinAdd(a, b) ==
    IF a.m = 0 THEN b
    ELSE IF b.m = 0 THEN a
    ELSE LET hi == IF a.e >= b.e THEN a ELSE b
             lo == IF a.e >= b.e THEN b ELSE a
             d  == hi.e - lo.e
         IN  IF d > Precision + 2 THEN hi
             ELSE IF d <= 3
             THEN LET sum == hi.m * Pow2(d) + lo.m
                  IN  Round(Sgn(sum), Abs(sum), lo.e, FALSE)
             ELSE LET sh   == d - 3
                      lm   == Abs(lo.m) \div Pow2(sh)
                      st   == Abs(lo.m) % Pow2(sh) # 0
                      hm   == Abs(hi.m) * 8
                      same == Sgn(hi.m) = Sgn(lo.m)
                      mag  == IF same THEN hm + lm
                              ELSE IF st THEN hm - lm - 1
                              ELSE hm - lm
                  IN  Round(Sgn(hi.m), mag, hi.e - 3, st)

\* The operators *, /, +, - of the language on all numbers.
NumMul(a, b) ==
    IF IsNaN(a) \/ IsNaN(b) THEN NaN
    ELSE IF IsInf(a) \/ IsInf(b)
    THEN (IF IsZero(a) \/ IsZero(b) THEN NaN ELSE Inf(SignOf(a) * SignOf(b)))
    ELSE FinMul(a, b)

NumDiv(a, b) ==
    IF IsNaN(a) \/ IsNaN(b) THEN NaN
    ELSE IF IsInf(a) THEN (IF IsInf(b) THEN NaN
                           ELSE Inf(a.s * (IF SignOf(b) < 0 THEN -1 ELSE 1)))
    ELSE IF IsInf(b) THEN Zero
    ELSE IF IsZero(b) THEN (IF IsZero(a) THEN NaN ELSE Inf(SignOf(a)))
    ELSE IF IsZero(a) THEN Zero
    ELSE FinDiv(a, b)

NumAdd(a, b) ==
    IF IsNaN(a) \/ IsNaN(b) THEN NaN
    ELSE IF IsInf(a) THEN (IF IsInf(b) /\ b.s # a.s THEN NaN ELSE a)
    ELSE IF IsInf(b) THEN b
    ELSE FinAdd(a, b)

NumSub(a, b) == NumAdd(a, Neg(b))

\* The comparisons > , >= , < , <= : false when an operand is NaN.
NumGt(a, b) == ~IsNaN(a) /\ ~IsNaN(b) /\ a # b /\ SignOf(NumSub(a, b)) > 0

NumLt(a, b) == NumGt(b, a)

NumGe(a, b) == ~IsNaN(a) /\ ~IsNaN(b) /\ (a = b \/ NumGt(a, b))

NumLe(a, b) == NumGe(b, a)


\* Math.max and Math.min: NaN when an operand is NaN.
MathMax(a, b) ==
    IF IsNaN(a) \/ IsNaN(b) THEN NaN ELSE IF NumGt(a, b) THEN a ELSE b

MathMin(a, b) ==
    IF IsNaN(a) \/ IsNaN(b) THEN NaN ELSE IF NumLt(a, b) THEN a ELSE b

\* The value of an integer-valued number (the exponents the program passes
\* to Math.pow are month counts).
ToInt(a) ==
    IF a.e >= 0 THEN a.m * Pow2(a.e) ELSE a.m \div Pow2(-a.e)

\* acc * sq^n by binary exponentiation, every product rounded; NaN as soon
\* as a product is NaN.
RECURSIVE PowInt(_, _, _)
PowInt(acc, sq, n) ==
    IF n = 0 THEN acc
    ELSE LET acc2 == IF n % 2 = 1 THEN NumMul(acc, sq) ELSE acc
             sq2  == IF n > 1 THEN NumMul(sq, sq) ELSE sq
         IN  IF IsNaN(acc2) \/ IsNaN(sq2) THEN NaN
             ELSE PowInt(acc2, sq2, n \div 2)

\* Math.pow(base, exponent) for a month count as exponent: pow(x, 0) is 1,
\* pow(1, n) is exactly 1, otherwise the power by squaring.
MathPow(base, exponent) ==
    IF IsNaN(exponent) THEN NaN
    ELSE IF IsZero(exponent) THEN One
    ELSE IF IsNaN(base) THEN NaN
    ELSE PowInt(One, base, ToInt(exponent))

(***************************************************************************)
(* App: the state of the component, and the state of the InstallPrompt     *)
(* component it renders.  The two components share no state.               *)
(***************************************************************************)
VARIABLES years, targetAmount, annualReturn, initialCapital, result,
          effectPending,
          deferredPrompt, showPrompt, dispatched, userChoice, promptCalls,
          awaiting

vars == <<years, targetAmount, annualReturn, initialCapital, result,
          effectPending,
          deferredPrompt, showPrompt, dispatched, userChoice, promptCalls,
          awaiting>>

\* The state of App.
appVars == <<years, targetAmount, annualReturn, initialCapital, result,
             effectPending>>

\* The state of InstallPrompt and of the platform events it has received.
installVars == <<deferredPrompt, showPrompt, dispatched, userChoice,
                 promptCalls, awaiting>>

\* useState defaults.
DefaultYears == 20

DefaultTargetAmount == 1000000

DefaultAnnualReturn == 10

DefaultInitialCapital == 100000

\* Upper clamps of the four onChange handlers.
MaxYears == 50

MaxTargetAmount == 50000000

MaxAnnualReturn == 30

MaxInitialCapital == 10000000

\* The null of useState<CalculationResult | null>.
Null == [kind |-> "null"]

\* One pass of the yearly breakdown loop body, for the loop variable year.
YearRecord(year, monthlyInvestment, monthlyRate, initialCapital_) ==
    LET monthsElapsed == NumMul(FromInt(year), FromInt(12))
        investedSoFar == NumMul(monthlyInvestment, monthsElapsed)
        futureValueOfInitialAtYear ==
            NumMul(initialCapital_,
                   MathPow(NumAdd(One, monthlyRate), monthsElapsed))
        futureValueOfMonthlyAtYear ==
            NumMul(monthlyInvestment,
                   NumDiv(NumSub(MathPow(NumAdd(One, monthlyRate),
                                         monthsElapsed), One),
                          monthlyRate))
        totalValue == NumAdd(futureValueOfInitialAtYear,
                             futureValueOfMonthlyAtYear)
        profit == NumSub(NumSub(totalValue, investedSoFar), initialCapital_)
    IN  [year           |-> year,
         totalValue     |-> totalValue,
         totalInvested  |-> investedSoFar,
         initialCapital |-> initialCapital_,
         profit         |-> profit]

\* LoopYears with the loop test year < years.
LoopYears_Exclusive(years_) ==
    {year \in 1..(IF IsFin(years_) /\ years_.m > 0 THEN ToInt(years_) ELSE 0) :
        NumLt(FromInt(year), years_)}

\* for (let year = 1; year <= years; year++): the values of year for which
\* the body runs, those from 1 on that pass the test year <= years.  (No
\* whole number above the integer part of years passes it; years is finite,
\* the loop does not end otherwise.)
LoopYears(years_) ==
    {year \in 1..(IF IsFin(years_) /\ years_.m > 0 THEN ToInt(years_) ELSE 0) :
        NumLe(FromInt(year), years_)}

\* The array the loop builds: one push per pass, in the order of the passes.
YearlyBreakdown(years_, monthlyInvestment, monthlyRate, initialCapital_) ==
    [year \in LoopYears(years_) |->
        YearRecord(year, monthlyInvestment, monthlyRate, initialCapital_)]

\* AnnuityFactor without the division by the monthly rate.
AnnuityFactor_NoRate(monthlyRate, totalMonths) ==
    NumSub(MathPow(NumAdd(One, monthlyRate), totalMonths), One)

\* The annuity factor ((1 + r)^n - 1) / r of the payment formula.
AnnuityFactor(monthlyRate, totalMonths) ==
    NumDiv(NumSub(MathPow(NumAdd(One, monthlyRate), totalMonths), One),
           monthlyRate)

\* MonthlyInvestment without the test remainingAmount > 0.
MonthlyInvestment_Unguarded(remainingAmount, monthlyRate, totalMonths) ==
    NumDiv(remainingAmount,
           NumDiv(NumSub(MathPow(NumAdd(One, monthlyRate), totalMonths), One),
                  monthlyRate))

\* const monthlyInvestment = remainingAmount > 0 ? remainingAmount / ... : 0
MonthlyInvestment(remainingAmount, monthlyRate, totalMonths) ==
    IF NumGt(remainingAmount, Zero)
    THEN NumDiv(remainingAmount, AnnuityFactor(monthlyRate, totalMonths))
    ELSE Zero

\* Invalid with years < 0 for years <= 0 and no test of the annual return.
Invalid_Weak(years_, targetAmount_, annualReturn_, initialCapital_) ==
    \/ NumLt(years_, Zero)
    \/ NumLe(targetAmount_, Zero)
    \/ NumLt(initialCapital_, Zero)

\* The validity test that makes calculateInvestment store null.
Invalid(years_, targetAmount_, annualReturn_, initialCapital_) ==
    \/ NumLe(years_, Zero)
    \/ NumLe(targetAmount_, Zero)
    \/ NumLt(annualReturn_, Zero)
    \/ NumLt(initialCapital_, Zero)

\* calculateInvestment: the value it passes to setResult.
calculateInvestment(years_, targetAmount_, annualReturn_, initialCapital_) ==
    IF Invalid(years_, targetAmount_, annualReturn_, initialCapital_)
    THEN Null
    ELSE
    LET monthlyRate == NumDiv(NumDiv(annualReturn_, FromInt(100)), FromInt(12))
        totalMonths == NumMul(years_, FromInt(12))
        futureValueOfInitial ==
            NumMul(initialCapital_,
                   MathPow(NumAdd(One, monthlyRate), totalMonths))
        remainingAmount == NumSub(targetAmount_, futureValueOfInitial)
        monthlyInvestment ==
            MonthlyInvestment(remainingAmount, monthlyRate, totalMonths)
        totalInvested == NumMul(monthlyInvestment, totalMonths)
        totalProfit ==
            NumSub(NumSub(targetAmount_, totalInvested), initialCapital_)
    IN  [kind              |-> "result",
         monthlyInvestment |-> monthlyInvestment,
         totalInvested     |-> totalInvested,
         initialCapital    |-> initialCapital_,
         totalProfit       |-> totalProfit,
         yearlyBreakdown   |->
             YearlyBreakdown(years_, monthlyInvestment, monthlyRate,
                             initialCapital_)]


(***************************************************************************)
(* InstallPrompt.  The beforeinstallprompt events the window receives are  *)
(* numbered 1, 2, ... in the order of their dispatch.  Each event carries  *)
(* its own userChoice promise, which the platform settles after prompt()   *)
(* has been called on the event and the user has answered the platform's   *)
(* dialog.                                                                 *)
(***************************************************************************)

\* Number of beforeinstallprompt events the platform dispatches.
MaxEvents == 3

\* Number of prompt() calls made on one event.
MaxPromptCalls == 2

\* The null of useState<BeforeInstallPromptEvent | null>.
NoEvent == 0

Events == 1..MaxEvents

\* userChoice: Promise<{ outcome: 'accepted' | 'dismissed' }>
Outcomes == {"accepted", "dismissed"}

InitInstall ==
    /\ deferredPrompt = NoEvent
    /\ showPrompt = FALSE
    /\ dispatched = 0
    /\ userChoice = [e \in Events |-> "pending"]
    /\ promptCalls = [e \in Events |-> 0]
    /\ awaiting = [e \in Events |-> 0]

\* if (!showPrompt || !deferredPrompt) { return null; }  return ( <div ...
\* TRUE when the component renders the banner, with its Install button and
\* its two dismiss buttons.
BannerRendered == ~(~showPrompt \/ deferredPrompt = NoEvent)

\* The listener of 'beforeinstallprompt', for the next event dispatched.
handler ==
    /\ dispatched < MaxEvents
    /\ dispatched' = dispatched + 1
    /\ deferredPrompt' = dispatched + 1
    /\ showPrompt' = TRUE
    /\ UNCHANGED <<userChoice, promptCalls, awaiting>>
    /\ UNCHANGED appVars

\* Resume with the state of the banner cleared only partly on acceptance.
Resume_HideOnly(outcome) ==
    IF outcome = "accepted"
    THEN /\ showPrompt' = FALSE
         /\ UNCHANGED deferredPrompt
    ELSE UNCHANGED <<deferredPrompt, showPrompt>>

\* handleInstall after its await: const { outcome } = ...; if (outcome ===
\* 'accepted') { setDeferredPrompt(null); setShowPrompt(false); }
Resume(outcome) ==
    IF outcome = "accepted"
    THEN /\ deferredPrompt' = NoEvent
         /\ showPrompt' = FALSE
    ELSE UNCHANGED <<deferredPrompt, showPrompt>>

\* A click on the Install button: handleInstall up to its await.  The
\* button exists only while the banner is rendered, and the deferredPrompt
\* of the closure is the one of that render.  When the userChoice of the
\* event is settled already, the rest of handleInstall runs as a microtask
\* of the click, before any other event is handled.
handleInstall ==
    /\ BannerRendered
    /\ IF deferredPrompt = NoEvent
       THEN UNCHANGED installVars
       ELSE /\ promptCalls[deferredPrompt] < MaxPromptCalls
            /\ promptCalls' =
                   [promptCalls EXCEPT ![deferredPrompt] = @ + 1]
            /\ IF userChoice[deferredPrompt] = "pending"
               THEN /\ awaiting' = [awaiting EXCEPT ![deferredPrompt] = @ + 1]
                    /\ UNCHANGED <<deferredPrompt, showPrompt>>
               ELSE /\ Resume(userChoice[deferredPrompt])
                    /\ UNCHANGED awaiting
            /\ UNCHANGED <<dispatched, userChoice>>
    /\ UNCHANGED appVars

\* The platform settles the userChoice of event e, on which prompt() has
\* been called, and every handleInstall awaiting it resumes.
UserChoice(e, outcome) ==
    /\ e \in 1..dispatched
    /\ promptCalls[e] > 0
    /\ userChoice[e] = "pending"
    /\ userChoice' = [userChoice EXCEPT ![e] = outcome]
    /\ awaiting' = [awaiting EXCEPT ![e] = 0]
    /\ IF awaiting[e] > 0
       THEN Resume(outcome)
       ELSE UNCHANGED <<deferredPrompt, showPrompt>>
    /\ UNCHANGED <<dispatched, promptCalls>>
    /\ UNCHANGED appVars

\* handleDismiss that also drops the captured event.
handleDismiss_Clearing ==
    /\ BannerRendered
    /\ showPrompt' = FALSE
    /\ deferredPrompt' = NoEvent
    /\ UNCHANGED <<dispatched, userChoice, promptCalls, awaiting>>
    /\ UNCHANGED appVars

\* A click on either dismiss button: setShowPrompt(false).
handleDismiss ==
    /\ BannerRendered
    /\ showPrompt' = FALSE
    /\ UNCHANGED <<deferredPrompt, dispatched, userChoice, promptCalls,
                   awaiting>>
    /\ UNCHANGED appVars


(***************************************************************************)
(* The input fields.  e.target.value of an <input type="number"> is the    *)
(* empty string or a numeric literal: <<>> is the empty string and <<n>>   *)
(* the literal of the whole number n.                                      *)
(***************************************************************************)

\* Largest whole number of years typed, besides one above the clamp.
MaxTypedYears == 2

EmptyString == <<>>

TypedYears ==
    {EmptyString, <<-1>>, <<MaxYears + 10>>}
        \cup {<<n>> : n \in 0..MaxTypedYears}

TypedTargetAmount ==
    {EmptyString, <<500>>, <<150000>>, <<MaxTargetAmount + 10000000>>}

TypedAnnualReturn == {EmptyString, <<-1>>, <<6>>, <<MaxAnnualReturn + 10>>}

TypedInitialCapital ==
    {EmptyString, <<-1>>, <<200000>>, <<MaxInitialCapital + 10000000>>}

\* Number(value) on a numeric literal.
Number(value) == FromInt(value[1])

\* const numValue = value === '' ? 0 : Number(value);
\* (cleanValue, the value without leading zeros, is computed and not used.)
NumValue(value) == IF value = EmptyString THEN Zero ELSE Number(value)

\* Math.min(Math.max(numValue, 0), max)
Clamp(numValue, max) == MathMin(MathMax(numValue, Zero), FromInt(max))

\* The values the four fields can hold: the defaults and the clamped typed
\* values.
FieldYears ==
    {FromInt(DefaultYears)}
        \cup {Clamp(NumValue(v), MaxYears) : v \in TypedYears}

FieldTargetAmount ==
    {FromInt(DefaultTargetAmount)}
        \cup {Clamp(NumValue(v), MaxTargetAmount) : v \in TypedTargetAmount}

FieldAnnualReturn ==
    {FromInt(DefaultAnnualReturn)}
        \cup {Clamp(NumValue(v), MaxAnnualReturn) : v \in TypedAnnualReturn}

FieldInitialCapital ==
    {FromInt(DefaultInitialCapital)}
        \cup {Clamp(NumValue(v), MaxInitialCapital) : v \in TypedInitialCapital}

\* calculateInvestment is a function of the four fields alone; its values on
\* the field values are computed once.
Calculated ==
    {<<y, t, a, c, calculateInvestment(y, t, a, c)>> :
        y \in FieldYears, t \in FieldTargetAmount,
        a \in FieldAnnualReturn, c \in FieldInitialCapital}

\* The result calculateInvestment stores when the fields hold y, t, a, c.
Project(y, t, a, c) ==
    (CHOOSE x \in Calculated :
        x[1] = y /\ x[2] = t /\ x[3] = a /\ x[4] = c)[5]

Init ==
    /\ years = FromInt(DefaultYears)
    /\ targetAmount = FromInt(DefaultTargetAmount)
    /\ annualReturn = FromInt(DefaultAnnualReturn)
    /\ initialCapital = FromInt(DefaultInitialCapital)
    /\ result = Null
    /\ effectPending = TRUE
    /\ InitInstall

\* onChange of the initial capital field.  A state setter given the value
\* the state already holds changes nothing, and the effect, whose
\* dependencies are the four fields, is not scheduled.
OnChangeInitialCapital(value) ==
    /\ ~effectPending
    /\ initialCapital' = Clamp(NumValue(value), MaxInitialCapital)
    /\ effectPending' = (initialCapital' # initialCapital)
    /\ UNCHANGED <<years, targetAmount, annualReturn, result>>
    /\ UNCHANGED installVars

\* OnChangeYears with years missing from the dependencies of the effect.
OnChangeYears_NoEffect(value) ==
    /\ ~effectPending
    /\ years' = Clamp(NumValue(value), MaxYears)
    /\ UNCHANGED <<targetAmount, annualReturn, initialCapital, result,
                   effectPending>>
    /\ UNCHANGED installVars

\* onChange of the years field.
OnChangeYears(value) ==
    /\ ~effectPending
    /\ years' = Clamp(NumValue(value), MaxYears)
    /\ effectPending' = (years' # years)
    /\ UNCHANGED <<targetAmount, annualReturn, initialCapital, result>>
    /\ UNCHANGED installVars

\* onChange of the target amount field.
OnChangeTargetAmount(value) ==
    /\ ~effectPending
    /\ targetAmount' = Clamp(NumValue(value), MaxTargetAmount)
    /\ effectPending' = (targetAmount' # targetAmount)
    /\ UNCHANGED <<years, annualReturn, initialCapital, result>>
    /\ UNCHANGED installVars

\* onChange of the annual return field.
OnChangeAnnualReturn(value) ==
    /\ ~effectPending
    /\ annualReturn' = Clamp(NumValue(value), MaxAnnualReturn)
    /\ effectPending' = (annualReturn' # annualReturn)
    /\ UNCHANGED <<years, targetAmount, initialCapital, result>>
    /\ UNCHANGED installVars

\* useEffect(() => { calculateInvestment(); }, [years, targetAmount,
\* annualReturn, initialCapital]): runs after the render that follows the
\* mount or a change of a dependency, before the next event is handled.
RunEffect ==
    /\ effectPending
    /\ result' = Project(years, targetAmount, annualReturn, initialCapital)
    /\ effectPending' = FALSE
    /\ UNCHANGED <<years, targetAmount, annualReturn, initialCapital>>
    /\ UNCHANGED installVars

Next ==
    \/ \E value \in TypedInitialCapital : OnChangeInitialCapital(value)
    \/ \E value \in TypedYears : OnChangeYears(value)
    \/ \E value \in TypedTargetAmount : OnChangeTargetAmount(value)
    \/ \E value \in TypedAnnualReturn : OnChangeAnnualReturn(value)
    \/ RunEffect

Spec == Init /\ [][Next]_vars


(***************************************************************************)
(* calculateInvestment on arbitrary arguments: the four fields start at    *)
(* any values of the sets below, negative ones included, and the function  *)
(* is applied once.                                                        *)
(***************************************************************************)
ArgYears == {FromInt(n) : n \in -1..MaxTypedYears}

ArgTargetAmount == {FromInt(n) : n \in {-1, 0, 500, 150000}}

ArgAnnualReturn == {FromInt(n) : n \in {-1, 0, 6, 30}}

ArgInitialCapital == {FromInt(n) : n \in {-1, 0, 100000, 200000}}

InitCalc ==
    /\ years \in ArgYears
    /\ targetAmount \in ArgTargetAmount
    /\ annualReturn \in ArgAnnualReturn
    /\ initialCapital \in ArgInitialCapital
    /\ result = Null
    /\ effectPending = TRUE
    /\ InitInstall

Calculate ==
    /\ effectPending
    /\ result' = calculateInvestment(years, targetAmount, annualReturn,
                                     initialCapital)
    /\ effectPending' = FALSE
    /\ UNCHANGED <<years, targetAmount, annualReturn, initialCapital>>
    /\ UNCHANGED installVars

NextCalc == Calculate

SpecCalc == InitCalc /\ [][NextCalc]_vars

(***************************************************************************)
(* InstallPrompt on its own: the fields of App keep their initial values.  *)
(***************************************************************************)
NextInstall ==
    \/ handler
    \/ handleInstall
    \/ \E e \in Events, outcome \in Outcomes : UserChoice(e, outcome)
    \/ handleDismiss

SpecInstall == Init /\ [][NextInstall]_vars

(***************************************************************************)
(* Properties.                                                             *)
(***************************************************************************)

\* calculateInvestment has run on the values the fields hold now.
Computed == ~effectPending

\* The fields pass the validity test and a result is stored for them.
HasResult == Computed /\ result # Null

monthlyRateNow == NumDiv(NumDiv(annualReturn, FromInt(100)), FromInt(12))

totalMonthsNow == NumMul(years, FromInt(12))

\* The initial capital compounded for the whole horizon.
CompoundedInitial ==
    NumMul(initialCapital, MathPow(NumAdd(One, monthlyRateNow), totalMonthsNow))

LastRecord == result.yearlyBreakdown[Len(result.yearlyBreakdown)]

\* C1: calculateInvestment stores null exactly when years <= 0 or
\* targetAmount <= 0 or annualReturn < 0 or initialCapital < 0, and a
\* non-null result for every other argument tuple.
C1_NullExactlyWhenInvalid ==
    Computed =>
        (result = Null <=>
            \/ NumLe(years, Zero)
            \/ NumLe(targetAmount, Zero)
            \/ NumLt(annualReturn, Zero)
            \/ NumLt(initialCapital, Zero))

\* C1 witness: a negative annual return alone, the other three arguments
\* valid, has produced null.
C1_Witness ==
    /\ Computed
    /\ result = Null
    /\ annualReturn = FromInt(-1)
    /\ NumGt(years, Zero)
    /\ NumGt(targetAmount, Zero)
    /\ NumGe(initialCapital, Zero)

\* C2: with annualReturn = 0 and targetAmount - initialCapital > 0 the
\* monthly investment is (targetAmount - initialCapital) / (years * 12).
C2_ZeroRateLimit ==
    (/\ HasResult
     /\ IsZero(annualReturn)
     /\ NumGt(NumSub(targetAmount, initialCapital), Zero))
        => result.monthlyInvestment =
               NumDiv(NumSub(targetAmount, initialCapital), totalMonthsNow)

\* Relative tolerance of the comparison of C3: four units in the last place
\* of the significand.
WithinTolerance(a, b) ==
    /\ IsFin(a)
    /\ LET diff == NumSub(a, b)
           absDiff == IF SignOf(diff) < 0 THEN Neg(diff) ELSE diff
       IN  NumLe(absDiff,
                 NumMul(b, NumDiv(FromInt(4), FromInt(Pow2(Precision)))))

C4_Sufficiency ==
    HasResult =>
        /\ NumGe(CompoundedInitial, targetAmount)
               => /\ result.monthlyInvestment = Zero
                  /\ result.totalInvested = Zero
        /\ NumGt(result.monthlyInvestment, Zero)
               => NumLt(CompoundedInitial, targetAmount)

\* C4 witness: an initial capital below the target that compounds past it.
C4_Witness ==
    /\ HasResult
    /\ NumLt(initialCapital, targetAmount)
    /\ NumGt(CompoundedInitial, targetAmount)
    /\ result.monthlyInvestment = Zero

\* C5: when the monthly investment is 0, the total value of the last record
\* is a number >= targetAmount and every record's total value is the
\* initial capital compounded for year * 12 months.
C5_SufficientBreakdown ==
    (HasResult /\ result.monthlyInvestment = Zero)
        => /\ Len(result.yearlyBreakdown) >= 1
           /\ IsFin(LastRecord.totalValue)
           /\ NumGe(LastRecord.totalValue, targetAmount)
           /\ \A i \in 1..Len(result.yearlyBreakdown) :
                  result.yearlyBreakdown[i].totalValue =
                      NumMul(initialCapital,
                             MathPow(NumAdd(One, monthlyRateNow),
                                     FromInt(12 * i)))


\* C6: every monetary output of a result is non-negative: the monthly
\* investment, the total invested, the total profit, and each yearly
\* record's total value, total invested and profit.
C6_NonNegative ==
    HasResult =>
        /\ NumGe(result.monthlyInvestment, Zero)
        /\ NumGe(result.totalInvested, Zero)
        /\ NumGe(result.totalProfit, Zero)
        /\ \A i \in 1..Len(result.yearlyBreakdown) :
               /\ NumGe(result.yearlyBreakdown[i].totalValue, Zero)
               /\ NumGe(result.yearlyBreakdown[i].totalInvested, Zero)
               /\ NumGe(result.yearlyBreakdown[i].profit, Zero)

C8_Monotone ==
    HasResult =>
        \A a2 \in FieldAnnualReturn :
            NumGt(a2, annualReturn) =>
                NumLe(Project(years, targetAmount, a2,
                              initialCapital).monthlyInvestment,
                      result.monthlyInvestment)

\* Lower bounds the input elements declare (min="1", min="1000").
MinYears == 1

MinTargetAmount == 1000

\* C9: the fields always hold years in [1, 50] or 0, targetAmount in
\* [1000, 50000000], annualReturn in [0, 30] and initialCapital in
\* [0, 10000000].
C9_FieldsInBounds ==
    /\ \/ years = Zero
       \/ NumGe(years, FromInt(MinYears)) /\ NumLe(years, FromInt(MaxYears))
    /\ NumGe(targetAmount, FromInt(MinTargetAmount))
    /\ NumLe(targetAmount, FromInt(MaxTargetAmount))
    /\ NumGe(annualReturn, Zero)
    /\ NumLe(annualReturn, FromInt(MaxAnnualReturn))
    /\ NumGe(initialCapital, Zero)
    /\ NumLe(initialCapital, FromInt(MaxInitialCapital))

\* C10: once the effect a change has scheduled has run, the stored result is
\* what calculateInvestment yields for the values the fields hold now: null
\* when they are invalid, and otherwise the result of these four values,
\* whatever was typed or stored before.
C10_ResultOfCurrentFields ==
    Computed =>
        result = Project(years, targetAmount, annualReturn, initialCapital)

\* C10 witness: the years field was emptied after the result of the defaults
\* was stored, and the effect has replaced that result by null.
C10_Witness ==
    /\ Computed
    /\ years = Zero
    /\ result = Null

(***************************************************************************)
(* InstallPrompt properties.                                               *)
(***************************************************************************)

\* C11: handleDismiss sets showPrompt to false and leaves deferredPrompt as
\* it is, so that the banner is not rendered after it; the banner goes from
\* not rendered to rendered only by the beforeinstallprompt listener, on a
\* new event; and whenever the banner is rendered, showPrompt is true and
\* deferredPrompt is not null.
C11_DismissHidesAndRetains ==
    /\ [](BannerRendered => (showPrompt /\ deferredPrompt # NoEvent))
    /\ [][handleDismiss =>
             /\ showPrompt' = FALSE
             /\ deferredPrompt' = deferredPrompt
             /\ deferredPrompt' # NoEvent
             /\ ~BannerRendered']_vars
    /\ [][(~BannerRendered /\ BannerRendered') =>
             /\ handler
             /\ deferredPrompt' = dispatched']_vars

\* A dismissed banner whose event is still held, after the user has
\* declined a platform dialog.
C11_Witness ==
    /\ ~showPrompt
    /\ deferredPrompt # NoEvent
    /\ ~BannerRendered
    /\ \E e \in Events : userChoice[e] = "dismissed"

\* C12: prompt() is called only by a click on Install while an event is
\* held, on that event, and never by the beforeinstallprompt listener; when
\* a userChoice resolves 'accepted', deferredPrompt is null and the banner
\* is hidden afterwards; when it resolves 'dismissed', deferredPrompt and
\* showPrompt are as before; and deferredPrompt leaves null, and showPrompt
\* becomes true, only by the listener on a new event.
C12_InstallOnClickOnly ==
    /\ [][(promptCalls' # promptCalls) =>
             /\ handleInstall
             /\ deferredPrompt # NoEvent
             /\ promptCalls' =
                    [promptCalls EXCEPT ![deferredPrompt] = @ + 1]]_vars
    /\ [][handler => promptCalls' = promptCalls]_vars
    /\ [][\A e \in Events :
             UserChoice(e, "accepted") =>
                 /\ deferredPrompt' = NoEvent
                 /\ showPrompt' = FALSE
                 /\ ~BannerRendered']_vars
    /\ [][\A e \in Events :
             UserChoice(e, "dismissed") =>
                 UNCHANGED <<deferredPrompt, showPrompt>>]_vars
    /\ [][((deferredPrompt = NoEvent /\ deferredPrompt' # NoEvent)
              \/ (~showPrompt /\ showPrompt')) => handler]_vars

\* An accepted install whose event was no longer the one held: a later
\* event had replaced it while the platform dialog was open.
C12_Witness ==
    /\ deferredPrompt = NoEvent
    /\ ~showPrompt
    /\ dispatched > 1
    /\ userChoice[1] = "accepted"
    /\ promptCalls[1] > 0
    /\ \A e \in Events : e > 1 => promptCalls[e] = 0

====
